---- MODULE Spec2Model ----
(***************************************************************************)
(* Match lifecycle and settlement engine of GG-Monad.                      *)
(*                                                                         *)
(* The ledger (the GameRoom contract) is an external service: only its     *)
(* callers are in the sources (hooks/useGameRoom.ts), so its operations are *)
(* modelled from the specification (sections 3, 4.2 and 6).  The client     *)
(* side is modelled from hooks/useGameRoom.ts and app/games/page.tsx        *)
(* (component GamesContent, the copy that starts at line 2127).             *)
(*                                                                         *)
(* One client session (the user U) is modelled in full; every address can  *)
(* run the join handler, and the addresses other than U also act on the    *)
(* ledger directly (they stand for other clients of the same ledger).      *)
(***************************************************************************)
EXTENDS Integers, Sequences, FiniteSets, TLC

\* ------------------------------------------------------------------------
\* Universe of the model
\* ------------------------------------------------------------------------
Addresses == {"a1", "a2", "a3"}
U == "a1"
Others == Addresses \ {U}
\* the addresses that create rooms ("a2" and "a3" are interchangeable)
Creators == {U, "a2"}
NoAddr == "none"

RoomIds == {1, 2}
\* the room of the runs that follow one room
FirstRoom == {1}
NoRoomId == 0

\* bounds of the model
MaxScore == 1
MaxTicks == 2
MaxWatchers == 2
MaxTimer == 2          \* seconds on the clock of the AI challenge (60 in the code)
MaxPending == 2        \* delayed endings of the AI challenge waiting at once
MaxCollisions == 3     \* collision tests that hit in one animation frame
MaxListed == 3         \* room ids loadActiveRooms asks for (50 in the code)

\* entry fees and capacities rooms are created with: in the session of U
\* (50 and 2 are the defaults of the room creation form), in the settlement
\* runs and in the runs of the ledger alone
MaxFee == 12
FeeChoices == {50}
CapChoices == {2}
SettleFees == {0, 7, 50}
LedgerFees == (0..MaxFee) \cup {50}
LedgerCaps == {2, 3}

\* RoomStatus, as the numbers the client compares against
Filling == 0
Active == 1
Completed == 2
Expired == 3
Canceled == 4

\* ------------------------------------------------------------------------
\* Conversions used by the client
\* ------------------------------------------------------------------------
\* BigNumber.toString(): the decimal digits of a natural number
RECURSIVE toDecimalString(_)
toDecimalString(n) ==
  IF n < 10 THEN <<n>> ELSE Append(toDecimalString(n \div 10), n % 10)

\* parseInt() of a string of decimal digits
RECURSIVE ParseInt(_)
ParseInt(s) ==
  IF Len(s) = 0 THEN 0
  ELSE ParseInt(SubSeq(s, 1, Len(s) - 1)) * 10 + s[Len(s)]

\* Math.floor(x * 0.1), Math.floor(x * 0.9) and Math.floor(x * r / 100) on
\* non-negative integers below 2^31: the double nearest to 0.1 (0.9) lies
\* above 0.1 (0.9) by less than 1e-16, so the product never crosses an integer.
FloorTenth(x) == x \div 10
FloorNineTenths(x) == (x * 9) \div 10
FloorPercent(x, rate) == (x * rate) \div 100

\* ------------------------------------------------------------------------
\* The ledger: room records
\* ------------------------------------------------------------------------
NoRoom ==
  [exists |-> FALSE, creator |-> NoAddr, entryFee |-> 0, maxPlayers |-> 0,
   currentPlayers |-> 0, status |-> Filling, prizePool |-> 0,
   winner |-> NoAddr, prizeClaimed |-> FALSE,
   players |-> {}, submitted |-> {}, scores |-> [a \in Addresses |-> 0]]

VARIABLES
  rooms,            \* ledger: room id -> room record
  notification,     \* per client: kind of the notification shown last
  joinOp,           \* per client: the handleJoinRoom call in flight
  activeGame,       \* session of U
  activeRoomId,
  gameSessionData,
  gameScore,
  gameResult,
  hasPlayedInRoom,
  loadOp,           \* the loadRoomDetails call in flight
  overOp,           \* the handleGameOver call in flight
  claimOp,          \* the handleClaimPrize call in flight
  watchers,         \* the polling intervals started by handleGameOver
  playing,          \* a game of the mini-game component is running
  game,             \* the state of the mini-game components
  lobby,            \* the rooms of the lobby and the list made of them
  trace             \* what the last step did (observation only)

vars == <<rooms, notification, joinOp, activeGame, activeRoomId,
          gameSessionData, gameScore, gameResult, hasPlayedInRoom,
          loadOp, overOp, claimOp, watchers, playing, game, lobby, trace>>

sessionVars == <<activeGame, activeRoomId, gameSessionData, gameScore,
                 gameResult, hasPlayedInRoom>>


\* ------------------------------------------------------------------------
\* Ledger operations (specification sections 4.2 and 6)
\* ------------------------------------------------------------------------
NextRoomId == Cardinality({r \in RoomIds : rooms[r].exists}) + 1

LedgerCreateRoom(a, fee, cap) ==
  [exists |-> TRUE, creator |-> a, entryFee |-> fee, maxPlayers |-> cap,
   currentPlayers |-> 1, status |-> Filling, prizePool |-> fee,
   winner |-> NoAddr, prizeClaimed |-> FALSE,
   players |-> {a}, submitted |-> {}, scores |-> [x \in Addresses |-> 0]]

\* joinRoom(roomId, inviteCode) -> ok | fails(AlreadyFull, AlreadyJoined,
\* NotFound, Expired, Canceled, Completed)
LedgerJoinOk(room, a) ==
  /\ room.exists
  /\ room.status = Filling
  /\ room.currentPlayers < room.maxPlayers
  /\ a \notin room.players

LedgerJoinRoom(room, a) ==
  [room EXCEPT !.players = @ \cup {a},
               !.currentPlayers = @ + 1,
               !.prizePool = @ + room.entryFee,
               !.status = IF room.currentPlayers + 1 = room.maxPlayers
                          THEN Active ELSE Filling]

\* submitScore(roomId, score) -> ok | fails(NotActive, NotMember,
\* AlreadySubmitted)
LedgerSubmitOk(room, a) ==
  /\ room.exists
  /\ room.status = Active
  /\ a \in room.players
  /\ a \notin room.submitted

LedgerSubmitReason(room, a) ==
  IF ~room.exists THEN "room not found"
  ELSE IF room.status # Active THEN "room not active"
  ELSE IF a \notin room.players THEN "not a player"
  ELSE "already submitted"

\* the roster members holding the highest submitted score
TopScorers(room) ==
  {a \in room.submitted :
     \A b \in room.submitted : room.scores[b] <= room.scores[a]}

LedgerSubmitScore_firstCompletes(room, a, score, w) ==
  [room EXCEPT !.submitted = @ \cup {a},
               !.scores = [@ EXCEPT ![a] = score],
               !.status = Completed,
               !.winner = w]

LedgerSubmitScore_earlyWinner(room, a, score, w) ==
  [room EXCEPT !.submitted = @ \cup {a},
               !.scores = [@ EXCEPT ![a] = score],
               !.status = IF room.submitted \cup {a} = room.players
                          THEN Completed ELSE Active,
               !.winner = w]

\* the room after an accepted submission; w is the winner the ledger picks
\* when this submission completes the room
LedgerSubmitScore(room, a, score, w) ==
  LET sub == room.submitted \cup {a}
      done == sub = room.players
  IN [room EXCEPT !.submitted = sub,
                  !.scores = [@ EXCEPT ![a] = score],
                  !.status = IF done THEN Completed ELSE Active,
                  !.winner = IF done THEN w ELSE NoAddr]

\* claimPrize(roomId) -> ok | fails(NotWinner, AlreadyClaimed, NotCompleted)
LedgerClaimOk(room, a) ==
  /\ room.exists
  /\ room.status = Completed
  /\ room.winner = a
  /\ ~room.prizeClaimed

LedgerClaimPrize(room) == [room EXCEPT !.prizeClaimed = TRUE]

\* cancelRoom(roomId) -> ok | fails(NotCreator, NotFilling)
LedgerCancelOk(room, a) ==
  /\ room.exists
  /\ room.status = Filling
  /\ room.creator = a

LedgerCancelRoom(room) == [room EXCEPT !.status = Canceled]

LedgerExpireOk_anyStatus(room) == room.exists /\ room.status # Expired

\* time-based expiry, enforced by the ledger
LedgerExpireOk(room) == room.exists /\ room.status \in {Filling, Active}

LedgerExpireRoom(room) == [room EXCEPT !.status = Expired]

\* ------------------------------------------------------------------------
\* hooks/useGameRoom.ts: reads
\* ------------------------------------------------------------------------
NullView ==
  [null |-> TRUE, id |-> 0, creator |-> NoAddr, entryFee |-> <<0>>,
   maxPlayers |-> 0, currentPlayers |-> 0, status |-> Filling,
   prizePool |-> <<0>>, winner |-> NoAddr, prizeClaimed |-> FALSE]

\* getRoomDetails(roomId): the formatted room, or null when the id is
\* invalid, the read fails (ok = FALSE) or the ledger has no such room
getRoomDetails(roomId, ok) ==
  IF roomId \notin RoomIds \/ ~ok \/ ~rooms[roomId].exists THEN NullView
  ELSE LET room == rooms[roomId]
       IN [null |-> FALSE, id |-> roomId, creator |-> room.creator,
           entryFee |-> toDecimalString(room.entryFee),
           maxPlayers |-> room.maxPlayers,
           currentPlayers |-> room.currentPlayers,
           status |-> room.status,
           prizePool |-> toDecimalString(room.prizePool),
           winner |-> room.winner, prizeClaimed |-> room.prizeClaimed]

\* hasSubmittedScore as getPlayersInRoom derives it for one address
DerivedHasSubmitted(room, address) ==
  room.status = Completed /\ room.winner # NoAddr /\ room.winner = address

\* getPlayersInRoom(roomId): one record per address of the roster, or the
\* empty set when a read fails
getPlayersInRoom(roomId, ok) ==
  IF roomId \notin RoomIds \/ ~ok \/ ~rooms[roomId].exists THEN {}
  ELSE LET room == getRoomDetails(roomId, TRUE)
       IN {[playerAddress |-> a, score |-> 0,
            hasSubmittedScore |-> DerivedHasSubmitted(room, a)] :
             a \in rooms[roomId].players}

IsPlayerIn(players, address) ==
  \E p \in players : p.playerAddress = address

HasSubmittedIn(players, address) ==
  \E p \in players : p.playerAddress = address /\ p.hasSubmittedScore

AllSubmittedIn(players) == \A p \in players : p.hasSubmittedScore

\* ------------------------------------------------------------------------
\* Initial state
\* ------------------------------------------------------------------------
NoSession ==
  [roomId |-> NoRoomId, entryFee |-> <<0>>, maxPlayers |-> 0,
   currentPlayers |-> 0, isCreator |-> FALSE, status |-> Filling]

NoResult == [set |-> FALSE, success |-> FALSE, winnings |-> <<>>]

IdleJoin == [pc |-> "idle", room |-> NoRoomId]
IdleLoad == [pc |-> "idle", room |-> NoRoomId, snap |-> NullView]
\* okAtStart (observation only): the ledger would have accepted the
\* submission when handleGameOver was called
IdleOver ==
  [pc |-> "idle", room |-> NoRoomId, score |-> 0, sess |-> NoSession,
   okAtStart |-> FALSE]
IdleClaim == [pc |-> "idle", room |-> NoRoomId, expected |-> 0]

Ev(ev, who, room, ok, why) ==
  [ev |-> ev, who |-> who, room |-> room, ok |-> ok, why |-> why]

\* both mini-games on their start screens; calls counts the onGameOver
\* calls of a component since its last onStart (observation only)
ReadyGame ==
  [ai |-> [gameState |-> "ready", timer |-> MaxTimer, interval |-> FALSE,
           pending |-> 0, calls |-> 0],
   fb |-> [gameStarted |-> FALSE, gameOver |-> FALSE, calls |-> 0]]

\* the lobby before loadActiveRooms has run, with no room to list
NoLobby == [ledger |-> <<>>, activeRooms |-> <<>>, loaded |-> FALSE]

InitPage ==
  /\ rooms = [r \in RoomIds |-> NoRoom]
  /\ notification = [c \in Addresses |-> "none"]
  /\ joinOp = [c \in Addresses |-> IdleJoin]
  /\ activeGame = "none"
  /\ activeRoomId = NoRoomId
  /\ gameSessionData = NoSession
  /\ gameScore = -1
  /\ gameResult = NoResult
  /\ hasPlayedInRoom = FALSE
  /\ loadOp = IdleLoad
  /\ overOp = IdleOver
  /\ claimOp = IdleClaim
  /\ watchers = <<>>
  /\ playing = FALSE
  /\ game = ReadyGame
  /\ trace = Ev("init", NoAddr, NoRoomId, TRUE, "")

Init == InitPage /\ lobby = NoLobby


\* ------------------------------------------------------------------------
\* app/games/page.tsx: prize computations
\* ------------------------------------------------------------------------
commissionRate == 10

\* RoomDetails: the pre-game estimate
RoomDetailsPrize(entryFeeText, maxPlayers) ==
  LET entryFee == ParseInt(entryFeeText)
      totalPrizePool == entryFee * maxPlayers
      commissionAmount == FloorTenth(totalPrizePool)
      prizePoolAfterCommission == totalPrizePool - commissionAmount
  IN [totalPrizePool |-> totalPrizePool,
      commissionAmount |-> commissionAmount,
      winnerPrize |-> prizePoolAfterCommission]

checkGameResultPrize_ninety(prizePoolText) ==
  FloorNineTenths(ParseInt(prizePoolText))

\* checkGameResult: finalPrizeAmount
checkGameResultPrize(prizePoolText) ==
  LET prizePool == ParseInt(prizePoolText)
      commissionAmount == FloorPercent(prizePool, commissionRate)
  IN prizePool - commissionAmount

\* handleClaimPrize: expectedPrize
handleClaimPrizeExpected(prizePoolText) ==
  LET prizePool == ParseInt(prizePoolText)
      commissionAmount == FloorPercent(prizePool, commissionRate)
      prizePoolAfterCommission == prizePool - commissionAmount
  IN prizePoolAfterCommission

\* the "Prize Breakdown" block of the result panel
PrizeBreakdown(session) ==
  LET shown == session.roomId # NoRoomId /\ session.maxPlayers # 0
      gross == ParseInt(session.entryFee) * session.maxPlayers
  IN [totalPrizePool |-> IF shown THEN gross ELSE 0,
      commission |-> IF shown THEN FloorTenth(gross) ELSE 0,
      winnerPrize |-> IF shown THEN FloorNineTenths(gross) ELSE 0]

\* ------------------------------------------------------------------------
\* app/games/page.tsx: checkGameResult
\* ------------------------------------------------------------------------
IsWinner(room) == room.winner # NoAddr /\ room.winner = U

checkGameResult_result(room, old) ==
  IF room.null \/ room.status # Completed THEN old
  ELSE IF IsWinner(room)
       THEN [set |-> TRUE, success |-> TRUE,
             winnings |-> toDecimalString(checkGameResultPrize(room.prizePool))]
       ELSE [set |-> TRUE, success |-> FALSE, winnings |-> <<>>]

checkGameResult_notification(room, old) ==
  IF room.null \/ room.status # Completed THEN old
  ELSE IF IsWinner(room)
       THEN (IF room.prizeClaimed THEN "alreadyClaimed" ELSE "claimable")
       ELSE (IF room.winner # NoAddr THEN "winnerIs" ELSE "completed")

SetNote(c, kind) == [notification EXCEPT ![c] = kind]

StartLoad(roomId) == [pc |-> "room", room |-> roomId, snap |-> NullView]

\* ------------------------------------------------------------------------
\* Ledger calls made by other clients of the ledger
\* ------------------------------------------------------------------------
\* createRoom; for U this is handleCreateRoom, which loads the new room
CreateRoom(a, fee, cap) ==
  /\ NextRoomId \in RoomIds
  /\ a = U => loadOp.pc = "idle" /\ claimOp.pc = "idle"
  /\ rooms' = [rooms EXCEPT ![NextRoomId] = LedgerCreateRoom(a, fee, cap)]
  /\ IF a = U
     THEN /\ notification' = SetNote(U, "roomCreated")
          /\ loadOp' = StartLoad(NextRoomId)
          /\ playing' = FALSE
          /\ trace' = Ev("create", U, NextRoomId, TRUE, "")
     ELSE UNCHANGED <<notification, loadOp, playing, trace>>
  /\ UNCHANGED <<joinOp, sessionVars, overOp, claimOp, watchers>>
  /\ UNCHANGED <<game, lobby>>

\* a createRoom call that is not followed by a load of the room
LedgerCreateCall(a, fee, cap) ==
  /\ NextRoomId \in RoomIds
  /\ rooms' = [rooms EXCEPT ![NextRoomId] = LedgerCreateRoom(a, fee, cap)]
  /\ UNCHANGED <<notification, joinOp, sessionVars, loadOp, overOp, claimOp,
                 watchers, trace, playing>>
  /\ UNCHANGED <<game, lobby>>

\* a joinRoom call that the ledger accepts
LedgerJoinCall(a, r) ==
  /\ LedgerJoinOk(rooms[r], a)
  /\ rooms' = [rooms EXCEPT ![r] = LedgerJoinRoom(rooms[r], a)]
  /\ UNCHANGED <<notification, joinOp, sessionVars, loadOp, overOp, claimOp,
                 watchers, trace, playing>>
  /\ UNCHANGED <<game, lobby>>

\* a submitScore call that the ledger accepts
LedgerSubmitCall(a, r, score) ==
  /\ LedgerSubmitOk(rooms[r], a)
  /\ \E w \in TopScorers(LedgerSubmitScore(rooms[r], a, score, NoAddr)) :
       rooms' = [rooms EXCEPT ![r] = LedgerSubmitScore(rooms[r], a, score, w)]
  /\ UNCHANGED <<notification, joinOp, sessionVars, loadOp, overOp, claimOp,
                 watchers, trace, playing>>
  /\ UNCHANGED <<game, lobby>>

\* a claimPrize call: the ledger accepts or refuses it
LedgerClaimCall(a, r) ==
  /\ rooms[r].exists
  /\ rooms' = [rooms EXCEPT ![r] = IF LedgerClaimOk(rooms[r], a)
                                   THEN LedgerClaimPrize(rooms[r])
                                   ELSE rooms[r]]
  /\ trace' = Ev("claimCall", a, r, LedgerClaimOk(rooms[r], a), "")
  /\ UNCHANGED <<notification, joinOp, sessionVars, loadOp, overOp, claimOp,
                 watchers, playing>>
  /\ UNCHANGED <<game, lobby>>

CancelRoom(a, r) ==
  /\ LedgerCancelOk(rooms[r], a)
  /\ rooms' = [rooms EXCEPT ![r] = LedgerCancelRoom(rooms[r])]
  /\ UNCHANGED <<notification, joinOp, sessionVars, loadOp, overOp, claimOp,
                 watchers, trace, playing>>
  /\ UNCHANGED <<game, lobby>>

ExpireRoom(r) ==
  /\ LedgerExpireOk(rooms[r])
  /\ rooms' = [rooms EXCEPT ![r] = LedgerExpireRoom(rooms[r])]
  /\ UNCHANGED <<notification, joinOp, sessionVars, loadOp, overOp, claimOp,
                 watchers, trace, playing>>
  /\ UNCHANGED <<game, lobby>>

\* ------------------------------------------------------------------------
\* hooks/useGameRoom.ts: joinRoom
\* ------------------------------------------------------------------------
\* the error text joinRoom builds from the message of a refused transaction
joinErrorText(message) ==
  CASE message = "room is full" -> "This room is already full."
    [] message = "already joined" -> "You have already joined this room."
    [] message = "room not found" -> "Room not found or has been deleted."
    [] message = "room expired" -> "This room has expired."
    [] message = "room canceled" -> "This room has been canceled."
    [] message = "room completed" -> "This room has already been completed."
    [] OTHER -> message

LedgerJoinReason(room, a) ==
  IF ~room.exists THEN "room not found"
  ELSE IF room.status = Expired THEN "room expired"
  ELSE IF room.status = Canceled THEN "room canceled"
  ELSE IF room.status = Completed THEN "room completed"
  ELSE IF a \in room.players THEN "already joined"
  ELSE "room is full"

joinRoom_hidesRefusal(roomDetails, enough, accepted, message) ==
  [success |-> ~roomDetails.null /\ enough, insufficientBalance |-> ~enough,
   error |-> ""]

\* the value joinRoom returns: roomDetails is its own read of the room,
\* enough the outcome of the balance pre-check, accepted the ledger's answer
joinRoom(roomDetails, enough, accepted, message) ==
  IF roomDetails.null
  THEN [success |-> FALSE, insufficientBalance |-> FALSE,
        error |-> "Room not found or has been deleted"]
  ELSE IF ~enough
  THEN [success |-> FALSE, insufficientBalance |-> TRUE,
        error |-> "Insufficient balance"]
  ELSE IF accepted
  THEN [success |-> TRUE, insufficientBalance |-> FALSE, error |-> ""]
  ELSE [success |-> FALSE, insufficientBalance |-> FALSE,
        error |-> joinErrorText(message)]

\* the notification handleJoinRoom shows for a result of joinRoom
joinNotification(result) ==
  IF result.success THEN "joined"
  ELSE IF result.insufficientBalance THEN "insufficientBalance"
  ELSE "joinError"

\* ------------------------------------------------------------------------
\* app/games/page.tsx: handleJoinRoom
\* ------------------------------------------------------------------------
\* the first read and the checks made on it
JoinCheck(c, r) ==
  /\ joinOp[c].pc = "idle"
  /\ c = U => loadOp.pc = "idle" /\ claimOp.pc = "idle"
  /\ \E ok \in BOOLEAN :
       LET room == getRoomDetails(r, ok)
           refused == room.null \/ room.currentPlayers >= room.maxPlayers
                        \/ room.status = Completed
           why == IF room.null THEN "roomNotFound"
                  ELSE IF room.currentPlayers >= room.maxPlayers THEN "roomFull"
                  ELSE "roomCompleted"
       IN /\ joinOp' = [joinOp EXCEPT ![c] =
                          IF refused THEN IdleJoin
                          ELSE [pc |-> "players", room |-> r]]
          /\ notification' = IF refused THEN SetNote(c, why) ELSE notification
          /\ trace' = Ev("joinCheck", c, r, ~refused, IF refused THEN why ELSE "")
  /\ UNCHANGED <<rooms, sessionVars, loadOp, overOp, claimOp, watchers, playing>>
  /\ UNCHANGED <<game, lobby>>

\* the roster read: the creator and the members are sent to the room directly
JoinPlayers(c) ==
  /\ joinOp[c].pc = "players"
  /\ c = U => loadOp.pc = "idle"
  /\ \E ok \in BOOLEAN :
       LET r == joinOp[c].room
           players == getPlayersInRoom(r, ok)
           isCreator == rooms[r].creator = c
           isAlreadyInRoom == IsPlayerIn(players, c)
           direct == isCreator \/ isAlreadyInRoom
       IN /\ joinOp' = [joinOp EXCEPT ![c] =
                          IF direct THEN IdleJoin ELSE [pc |-> "hook", room |-> r]]
          /\ notification' = IF direct THEN notification ELSE SetNote(c, "joining")
          /\ IF direct /\ c = U
             THEN loadOp' = StartLoad(r) /\ activeRoomId' = r /\ playing' = FALSE
             ELSE UNCHANGED <<loadOp, activeRoomId, playing>>
          /\ trace' = Ev("joinPlayers", c, r, direct, "")
  /\ UNCHANGED <<rooms, activeGame, gameSessionData, gameScore, gameResult,
                 hasPlayedInRoom, overOp, claimOp, watchers>>
  /\ UNCHANGED <<game, lobby>>

\* joinRoom and what handleJoinRoom does with its result
JoinHook(c) ==
  /\ joinOp[c].pc = "hook"
  /\ c = U => loadOp.pc = "idle"
  /\ \E ok \in BOOLEAN, enough \in BOOLEAN :
       LET r == joinOp[c].room
           roomDetails == getRoomDetails(r, ok)
           called == ~roomDetails.null /\ enough
           accepted == called /\ LedgerJoinOk(rooms[r], c)
           result == joinRoom(roomDetails, enough, accepted,
                              LedgerJoinReason(rooms[r], c))
       IN /\ rooms' = IF accepted
                      THEN [rooms EXCEPT ![r] = LedgerJoinRoom(rooms[r], c)]
                      ELSE rooms
          /\ notification' = SetNote(c, joinNotification(result))
          /\ IF result.success /\ c = U
             THEN loadOp' = StartLoad(r) /\ activeRoomId' = r /\ playing' = FALSE
             ELSE UNCHANGED <<loadOp, activeRoomId, playing>>
          /\ trace' = IF called
                      THEN Ev("joinCall", c, r, accepted, result.error)
                      ELSE Ev("joinFail", c, r, FALSE, result.error)
  /\ joinOp' = [joinOp EXCEPT ![c] = IdleJoin]
  /\ UNCHANGED <<activeGame, gameSessionData, gameScore, gameResult,
                 hasPlayedInRoom, overOp, claimOp, watchers>>
  /\ UNCHANGED <<game, lobby>>


\* ------------------------------------------------------------------------
\* app/games/page.tsx: the searchParams effect and resetGameSession
\* ------------------------------------------------------------------------
\* isLoading is false: the page shows its content and not the loading screen
\* (loadRoomDetails and handleClaimPrize set isLoading while they run)
uiFree == loadOp.pc = "idle" /\ claimOp.pc = "idle"

\* navigation to /games?room=r (r = NoRoomId: no room in the URL)
Navigate(r) ==
  /\ r \in RoomIds \cup {NoRoomId}
  /\ uiFree
  /\ IF activeGame = "none"
     THEN /\ gameScore' = -1
          /\ hasPlayedInRoom' = FALSE
          /\ gameResult' = NoResult
          /\ gameSessionData' = NoSession
     ELSE UNCHANGED <<gameScore, hasPlayedInRoom, gameResult, gameSessionData>>
  /\ IF r # NoRoomId
     THEN activeRoomId' = r /\ loadOp' = StartLoad(r) /\ playing' = FALSE
     ELSE UNCHANGED <<activeRoomId, loadOp, playing>>
  /\ trace' = Ev("navigate", U, r, TRUE, "")
  /\ UNCHANGED <<rooms, notification, joinOp, activeGame, overOp, claimOp,
                 watchers>>
  /\ UNCHANGED <<game, lobby>>

\* click on a game card of the lobby: practice, no room
SelectGame ==
  /\ uiFree
  /\ activeGame = "none"
  /\ activeGame' = "flappy-bird"
  /\ trace' = Ev("select", U, NoRoomId, TRUE, "")
  /\ UNCHANGED <<rooms, notification, joinOp, activeRoomId, gameSessionData,
                 gameScore, gameResult, hasPlayedInRoom, loadOp, overOp,
                 claimOp, watchers, playing>>
  /\ UNCHANGED <<game, lobby>>

resetGameSession ==
  /\ uiFree
  /\ activeGame # "none" \/ gameResult.set
  /\ activeGame' = "none"
  /\ activeRoomId' = NoRoomId
  /\ gameSessionData' = NoSession
  /\ gameScore' = -1
  /\ hasPlayedInRoom' = FALSE
  /\ gameResult' = NoResult
  /\ playing' = FALSE
  /\ trace' = Ev("reset", U, NoRoomId, TRUE, "")
  /\ UNCHANGED <<rooms, notification, joinOp, loadOp, overOp, claimOp,
                 watchers>>
  /\ UNCHANGED <<game, lobby>>

\* ------------------------------------------------------------------------
\* app/games/page.tsx: loadRoomDetails
\* ------------------------------------------------------------------------
LoadRoom ==
  /\ loadOp.pc = "room"
  /\ \E ok \in BOOLEAN :
       LET room == getRoomDetails(loadOp.room, ok)
       IN IF room.null
          THEN /\ notification' = SetNote(U, "roomNotFound")
               /\ loadOp' = IdleLoad
               /\ trace' = Ev("loadRoom", U, loadOp.room, FALSE, "roomNotFound")
          ELSE /\ loadOp' = [loadOp EXCEPT !.pc = "players", !.snap = room]
               /\ trace' = Ev("loadRoom", U, loadOp.room, TRUE, "")
               /\ UNCHANGED notification
  /\ UNCHANGED <<rooms, joinOp, sessionVars, overOp, claimOp, watchers, playing>>
  /\ UNCHANGED <<game, lobby>>

observedHasPlayed_keepsOld(room, playersData, old) ==
  LET isCreator == room.creator # NoAddr /\ room.creator = U
      userIsMember == IsPlayerIn(playersData, U)
  IN CASE room.status = Filling ->
            IF room.currentPlayers < room.maxPlayers
            THEN (IF isCreator \/ userIsMember THEN FALSE ELSE old)
            ELSE old
       [] room.status = Active ->
            IF ~(isCreator \/ userIsMember) THEN TRUE
            ELSE IF HasSubmittedIn(playersData, U) THEN TRUE
            ELSE old
       [] room.status \in {Completed, Expired, Canceled} -> TRUE
       [] OTHER -> old

\* hasPlayedInRoom after the observation of room with roster playersData
observedHasPlayed(room, playersData, old) ==
  LET isCreator == room.creator # NoAddr /\ room.creator = U
      userIsMember == IsPlayerIn(playersData, U)
      playerHasSubmittedScore == HasSubmittedIn(playersData, U)
  IN CASE room.status = Filling ->
            IF room.currentPlayers < room.maxPlayers
            THEN (IF isCreator \/ userIsMember THEN FALSE ELSE old)
            ELSE old
       [] room.status = Active ->
            IF ~(isCreator \/ userIsMember) THEN TRUE
            ELSE IF playerHasSubmittedScore THEN TRUE
            ELSE FALSE
       [] room.status \in {Completed, Expired, Canceled} -> TRUE
       [] OTHER -> old

\* the notification left by the observation
observedNotification(room, playersData, old) ==
  LET isCreator == room.creator # NoAddr /\ room.creator = U
      userIsMember == IsPlayerIn(playersData, U)
      playerHasSubmittedScore == HasSubmittedIn(playersData, U)
  IN CASE room.status = Filling ->
            IF room.currentPlayers < room.maxPlayers
            THEN (IF isCreator THEN "creatorNotFull"
                  ELSE IF userIsMember THEN "joinedNotFull"
                  ELSE "needJoin")
            ELSE "fullNotActive"
       [] room.status = Active ->
            IF ~(isCreator \/ userIsMember) THEN "notAPlayer"
            ELSE IF playerHasSubmittedScore
                 THEN (IF AllSubmittedIn(playersData) THEN "allSubmitted"
                       ELSE "alreadySubmittedWaiting")
            ELSE "readyForPlay"
       [] room.status = Completed -> checkGameResult_notification(room, old)
       [] room.status = Expired -> "expired"
       [] room.status = Canceled -> "canceled"
       [] OTHER -> old

LoadPlayers ==
  /\ loadOp.pc = "players"
  /\ \E ok \in BOOLEAN :
       LET room == loadOp.snap
           playersData == getPlayersInRoom(loadOp.room, ok)
       IN /\ hasPlayedInRoom' =
               observedHasPlayed(room, playersData, hasPlayedInRoom)
          /\ notification' =
               SetNote(U, observedNotification(room, playersData, notification[U]))
          /\ gameResult' = checkGameResult_result(room, gameResult)
          /\ gameSessionData' =
               [roomId |-> room.id, entryFee |-> room.entryFee,
                maxPlayers |-> room.maxPlayers,
                currentPlayers |-> room.currentPlayers,
                isCreator |-> (room.creator # NoAddr /\ room.creator = U),
                status |-> room.status]
          /\ trace' = Ev("loadPlayers", U, loadOp.room, ok, "")
  /\ activeGame' = "flappy-bird"
  /\ loadOp' = IdleLoad
  /\ UNCHANGED <<rooms, joinOp, activeRoomId, gameScore, overOp, claimOp,
                 watchers, playing>>
  /\ UNCHANGED <<game, lobby>>


\* ------------------------------------------------------------------------
\* hooks/useGameRoom.ts: submitScore
\* ------------------------------------------------------------------------
statusText(status) ==
  CASE status = Filling -> "Filling"
    [] status = Completed -> "Completed"
    [] status = Expired -> "Expired"
    [] status = Canceled -> "Canceled"
    [] OTHER -> "unknown"

\* the error text submitScore returns with statusError
submitScoreStatusError(room) ==
  "Room must be in Active status to submit scores. Current status: "
    \o statusText(room.status)

submitScoreRoomCheck_membersFirst(room) ==
  IF room.null THEN "roomNotFound" ELSE "pass"

\* the first check of submitScore, on its read of the room:
\* "pass", or the flag of the failure it returns
submitScoreRoomCheck(room) ==
  IF room.null THEN "roomNotFound"
  ELSE IF room.status # Active THEN "statusError"
  ELSE "pass"

\* the checks of submitScore on the roster it read
submitScorePlayersCheck(players) ==
  IF ~IsPlayerIn(players, U) THEN "notPlayerError"
  ELSE IF HasSubmittedIn(players, U) THEN "alreadySubmittedError"
  ELSE "pass"

\* ------------------------------------------------------------------------
\* app/games/page.tsx: handleGameOver
\* ------------------------------------------------------------------------
failedSubmitHasPlayed_always(why) == TRUE

\* hasPlayedInRoom after submitScore returned the failure flagged why
\* ("generic": no flag) or after handleGameOver caught an exception
failedSubmitHasPlayed(why) ==
  IF why = "alreadySubmittedError" THEN TRUE ELSE FALSE

\* the notification for a failure of submitScore flagged why with text error
failedSubmitNotification(why, error) ==
  CASE why = "statusError" -> "Cannot submit score - " \o error
    [] why = "notPlayerError" -> "notRegistered"
    [] why = "alreadySubmittedError" -> "alreadySubmitted"
    [] OTHER -> "submitError"

\* `${gameSessionData.status}` for a status that is neither Filling nor Active
statusTemplate(status) ==
  CASE status = Completed -> "2"
    [] status = Expired -> "3"
    [] status = Canceled -> "4"
    [] OTHER -> "unknown"

\* the notification of handleGameOver when the status kept in the session is
\* not Active
sessionStatusNotification(status) ==
  IF status = Filling
  THEN "Cannot submit score - Room must be in Active status (currently in Filling status)."
  ELSE "Cannot submit score - Room is not in Active status. Current status: "
         \o statusTemplate(status)

\* the mini-game calls onStart(): a game begins
handleGameStart ==
  /\ uiFree
  /\ activeGame # "none"
  /\ ~playing
  /\ playing' = TRUE
  /\ IF hasPlayedInRoom
     THEN /\ notification' = SetNote(U, "alreadyPlayed")
          /\ UNCHANGED <<gameScore, gameResult>>
     ELSE /\ gameScore' = -1
          /\ gameResult' = NoResult
          /\ UNCHANGED notification
  /\ trace' = Ev("start", U, gameSessionData.roomId, ~hasPlayedInRoom, "")
  /\ UNCHANGED <<rooms, joinOp, activeGame, activeRoomId, gameSessionData,
                 hasPlayedInRoom, loadOp, overOp, claimOp, watchers>>
  /\ UNCHANGED <<game, lobby>>

\* the running game ends: the mini-game calls onGameOver(score)
GameOver(score) ==
  /\ uiFree
  /\ playing
  /\ overOp.pc = "idle"
  /\ playing' = FALSE
  /\ gameScore' = score
  /\ IF gameSessionData.roomId = NoRoomId
     THEN /\ trace' = Ev("overNoRoom", U, NoRoomId, TRUE, "")
          /\ UNCHANGED <<notification, overOp>>
     ELSE IF gameSessionData.status # Active
     THEN /\ notification' =
               SetNote(U, sessionStatusNotification(gameSessionData.status))
          /\ trace' = Ev("overRejected", U, gameSessionData.roomId, FALSE,
                         "sessionStatus")
          /\ UNCHANGED overOp
     ELSE /\ notification' = SetNote(U, "submitting")
          /\ overOp' = [pc |-> "gateRoom", room |-> gameSessionData.roomId,
                        score |-> score, sess |-> gameSessionData,
                        okAtStart |->
                          LedgerSubmitOk(rooms[gameSessionData.roomId], U)]
          /\ trace' = Ev("overStart", U, gameSessionData.roomId, TRUE, "")
  /\ UNCHANGED <<rooms, joinOp, activeGame, activeRoomId, gameSessionData,
                 gameResult, hasPlayedInRoom, loadOp, claimOp, watchers>>
  /\ UNCHANGED <<game, lobby>>

\* submitScore returned { success: false } with the flag why
SubmitFailed(why, error) ==
  /\ hasPlayedInRoom' = failedSubmitHasPlayed(why)
  /\ notification' = SetNote(U, failedSubmitNotification(why, error))
  /\ overOp' = IdleOver
  /\ trace' = Ev("overRejected", U, overOp.room, FALSE, why)

OverGateRoom ==
  /\ overOp.pc = "gateRoom"
  /\ \E ok \in BOOLEAN :
       LET room == getRoomDetails(overOp.room, ok)
           check == submitScoreRoomCheck(room)
       IN IF check = "pass"
          THEN /\ overOp' = [overOp EXCEPT !.pc = "gatePlayers"]
               /\ trace' = Ev("gateRoom", U, overOp.room, TRUE, "")
               /\ UNCHANGED <<hasPlayedInRoom, notification>>
          ELSE SubmitFailed(check,
                            IF check = "statusError"
                            THEN submitScoreStatusError(room)
                            ELSE "Room not found or has been deleted")
  /\ UNCHANGED <<rooms, joinOp, activeGame, activeRoomId, gameSessionData,
                 gameScore, gameResult, loadOp, claimOp, watchers, playing>>
  /\ UNCHANGED <<game, lobby>>

OverGatePlayers ==
  /\ overOp.pc = "gatePlayers"
  /\ \E ok \in BOOLEAN :
       LET check == submitScorePlayersCheck(getPlayersInRoom(overOp.room, ok))
       IN IF check = "pass"
          THEN /\ overOp' = [overOp EXCEPT !.pc = "write"]
               /\ trace' = Ev("gatePlayers", U, overOp.room, TRUE, "")
               /\ UNCHANGED <<hasPlayedInRoom, notification>>
          ELSE SubmitFailed(check, "")
  /\ UNCHANGED <<rooms, joinOp, activeGame, activeRoomId, gameSessionData,
                 gameScore, gameResult, loadOp, claimOp, watchers, playing>>
  /\ UNCHANGED <<game, lobby>>

\* gameRoom.submitScore(roomId, score): the ledger write of the gate.
\* sent = FALSE: the transaction is not sent (the call throws before it)
OverWrite ==
  /\ overOp.pc = "write"
  /\ \E sent \in BOOLEAN :
       LET r == overOp.room
           accepted == sent /\ LedgerSubmitOk(rooms[r], U)
       IN IF accepted
          THEN /\ \E w \in TopScorers(LedgerSubmitScore(rooms[r], U, overOp.score, NoAddr)) :
                    rooms' = [rooms EXCEPT ![r] =
                                LedgerSubmitScore(rooms[r], U, overOp.score, w)]
               /\ hasPlayedInRoom' = TRUE
               /\ notification' = SetNote(U, "scoreSubmitted")
               /\ overOp' = [overOp EXCEPT !.pc = "post"]
               /\ trace' = Ev("submitCall", U, r, TRUE, "")
          ELSE /\ hasPlayedInRoom' = failedSubmitHasPlayed("generic")
               /\ notification' = SetNote(U, failedSubmitNotification("generic", ""))
               /\ overOp' = IdleOver
               /\ trace' = IF sent
                           THEN Ev("submitCall", U, r, FALSE,
                                   LedgerSubmitReason(rooms[r], U))
                           ELSE Ev("overRejected", U, r, FALSE, "thrown")
               /\ UNCHANGED rooms
  /\ UNCHANGED <<joinOp, activeGame, activeRoomId, gameSessionData, gameScore,
                 gameResult, loadOp, claimOp, watchers, playing>>
  /\ UNCHANGED <<game, lobby>>

NewWatcher(r) ==
  [room |-> r, active |-> TRUE, inflight |-> 0, ticks |-> 0, derived |-> 0]

\* after an accepted submission: re-read the room, derive the result or
\* start the polling interval
OverPost ==
  /\ overOp.pc = "post"
  /\ \E ok \in BOOLEAN, okPlayers \in BOOLEAN :
       LET updatedRoom == getRoomDetails(overOp.room, ok)
           players == getPlayersInRoom(overOp.room, okPlayers)
           note == IF AllSubmittedIn(players) THEN "allSubmitted"
                   ELSE notification[U]
       IN IF updatedRoom.null
          THEN /\ trace' = Ev("overPost", U, overOp.room, FALSE, "")
               /\ UNCHANGED <<gameSessionData, notification, gameResult, watchers>>
          ELSE /\ gameSessionData' =
                    [overOp.sess EXCEPT !.status = updatedRoom.status]
               /\ notification' =
                    SetNote(U, checkGameResult_notification(updatedRoom, note))
               /\ gameResult' = checkGameResult_result(updatedRoom, gameResult)
               /\ IF updatedRoom.status = Completed
                  THEN /\ watchers' = watchers
                       /\ trace' = Ev("overPost", U, overOp.room, TRUE, "result")
                  ELSE /\ Len(watchers) < MaxWatchers
                       /\ watchers' = Append(watchers, NewWatcher(overOp.room))
                       /\ trace' = Ev("overPost", U, overOp.room, TRUE, "watch")
  /\ overOp' = IdleOver
  /\ UNCHANGED <<rooms, joinOp, activeGame, activeRoomId, gameScore,
                 hasPlayedInRoom, loadOp, claimOp, playing>>
  /\ UNCHANGED <<game, lobby>>

\* ------------------------------------------------------------------------
\* app/games/page.tsx: the polling interval started by handleGameOver
\* ------------------------------------------------------------------------
\* the interval fires: a read of the room begins
WatcherTick(i) ==
  /\ i \in DOMAIN watchers
  /\ watchers[i].active
  /\ watchers[i].ticks < MaxTicks
  /\ watchers' = [watchers EXCEPT ![i].inflight = @ + 1, ![i].ticks = @ + 1]
  /\ trace' = Ev("tick", U, watchers[i].room, TRUE, "")
  /\ UNCHANGED <<rooms, notification, joinOp, sessionVars, loadOp, overOp,
                 claimOp, playing>>
  /\ UNCHANGED <<game, lobby>>

\* a read begun by a tick returns
WatcherRead(i) ==
  /\ i \in DOMAIN watchers
  /\ watchers[i].inflight > 0
  /\ \E ok \in BOOLEAN :
       LET refreshedRoom == getRoomDetails(watchers[i].room, ok)
           completed == ~refreshedRoom.null /\ refreshedRoom.status = Completed
       IN /\ gameResult' = checkGameResult_result(refreshedRoom, gameResult)
          /\ notification' =
               SetNote(U, checkGameResult_notification(refreshedRoom, notification[U]))
          /\ watchers' =
               [watchers EXCEPT ![i].inflight = @ - 1,
                                ![i].active = IF completed THEN FALSE ELSE @,
                                ![i].derived = IF completed THEN @ + 1 ELSE @]
          /\ trace' = Ev("tickRead", U, watchers[i].room, completed, "")
  /\ UNCHANGED <<rooms, joinOp, activeGame, activeRoomId, gameSessionData,
                 gameScore, hasPlayedInRoom, loadOp, overOp, claimOp, playing>>
  /\ UNCHANGED <<game, lobby>>

\* setTimeout(() => clearInterval(checkInterval), 2 * 60 * 1000)
WatcherTimeout(i) ==
  /\ i \in DOMAIN watchers
  /\ watchers[i].active
  /\ watchers' = [watchers EXCEPT ![i].active = FALSE]
  /\ trace' = Ev("timeout", U, watchers[i].room, TRUE, "")
  /\ UNCHANGED <<rooms, notification, joinOp, sessionVars, loadOp, overOp,
                 claimOp, playing>>
  /\ UNCHANGED <<game, lobby>>


\* ------------------------------------------------------------------------
\* hooks/useGameRoom.ts: claimPrize, and app/games/page.tsx: handleClaimPrize
\* ------------------------------------------------------------------------
claimPrize_reportsSuccess(accepted) == TRUE

\* claimPrize(roomId): true when the transaction was mined, false when the
\* ledger refused it or the call threw
claimPrize(accepted) == accepted

\* click on a Claim button of the result panel
ClaimStart(r) ==
  /\ uiFree
  /\ activeGame # "none"
  /\ gameResult.set /\ gameResult.success /\ Len(gameResult.winnings) > 0
  /\ r # NoRoomId
  /\ r = activeRoomId \/ r = gameSessionData.roomId
  /\ claimOp' = [pc |-> "room", room |-> r, expected |-> 0]
  /\ notification' = SetNote(U, "claiming")
  /\ playing' = FALSE
  /\ trace' = Ev("claimStart", U, r, TRUE, "")
  /\ UNCHANGED <<rooms, joinOp, sessionVars, loadOp, overOp, watchers>>
  /\ UNCHANGED <<game, lobby>>

ClaimRead ==
  /\ claimOp.pc = "room"
  /\ \E ok \in BOOLEAN :
       LET room == getRoomDetails(claimOp.room, ok)
       IN IF room.null
          THEN /\ notification' = SetNote(U, "claimRoomNotFound")
               /\ claimOp' = IdleClaim
               /\ trace' = Ev("claimRead", U, claimOp.room, FALSE, "")
          ELSE /\ claimOp' = [claimOp EXCEPT
                                !.pc = "write",
                                !.expected = handleClaimPrizeExpected(room.prizePool)]
               /\ trace' = Ev("claimRead", U, claimOp.room, TRUE, "")
               /\ UNCHANGED notification
  /\ UNCHANGED <<rooms, joinOp, sessionVars, loadOp, overOp, watchers, playing>>
  /\ UNCHANGED <<game, lobby>>

\* gameRoom.claimPrize(roomId)
ClaimWrite ==
  /\ claimOp.pc = "write"
  /\ \E sent \in BOOLEAN :
       LET r == claimOp.room
           accepted == sent /\ LedgerClaimOk(rooms[r], U)
       IN /\ rooms' = IF accepted
                      THEN [rooms EXCEPT ![r] = LedgerClaimPrize(rooms[r])]
                      ELSE rooms
          /\ IF claimPrize(accepted)
             THEN /\ notification' = SetNote(U, "prizeClaimed")
                  /\ claimOp' = [claimOp EXCEPT !.pc = "reread"]
             ELSE /\ notification' = SetNote(U, "claimFailed")
                  /\ claimOp' = IdleClaim
          /\ trace' = IF sent THEN Ev("claimCall", U, r, accepted, "")
                      ELSE Ev("claimThrown", U, r, FALSE, "")
  /\ UNCHANGED <<joinOp, sessionVars, loadOp, overOp, watchers, playing>>
  /\ UNCHANGED <<game, lobby>>

ClaimReread ==
  /\ claimOp.pc = "reread"
  /\ \E ok \in BOOLEAN :
       LET updatedRoom == getRoomDetails(claimOp.room, ok)
       IN /\ gameResult' =
               IF updatedRoom.null THEN gameResult
               ELSE [set |-> TRUE, success |-> TRUE,
                     winnings |-> toDecimalString(claimOp.expected)]
          /\ trace' = Ev("claimReread", U, claimOp.room, ~updatedRoom.null, "")
  /\ claimOp' = IdleClaim
  /\ UNCHANGED <<rooms, notification, joinOp, activeGame, activeRoomId,
                 gameSessionData, gameScore, hasPlayedInRoom, loadOp, overOp,
                 watchers, playing>>
  /\ UNCHANGED <<game, lobby>>

\* ------------------------------------------------------------------------
\* components/games/AIChallenge.tsx and FlappyBird.tsx
\* ------------------------------------------------------------------------
gameOthers == <<rooms, notification, joinOp, sessionVars, loadOp, overOp,
                claimOp, watchers, playing, lobby>>

\* AIChallenge.endGame(finalScore): clears the timer, shows the game over
\* screen and calls onGameOver
AIendGame(ai) ==
  [ai EXCEPT !.interval = FALSE, !.gameState = "gameOver", !.calls = @ + 1]

\* AIChallenge.startGame, from the button of the start screen
AIstartGame ==
  /\ game.ai.gameState = "ready"
  /\ game' = [game EXCEPT !.ai = [@ EXCEPT !.gameState = "playing",
                                           !.timer = MaxTimer,
                                           !.interval = TRUE,
                                           !.calls = 0]]
  /\ trace' = Ev("aiStart", U, NoRoomId, TRUE, "")
  /\ UNCHANGED gameOthers

\* the one second interval of the clock
AItimerTick ==
  /\ game.ai.interval
  /\ game' = [game EXCEPT !.ai =
                IF @.timer <= 1
                THEN AIendGame([@ EXCEPT !.timer = 0])
                ELSE [@ EXCEPT !.timer = @ - 1]]
  /\ trace' = Ev("aiTick", U, NoRoomId, TRUE, "")
  /\ UNCHANGED gameOthers

\* handleSubmit with an answer of the AI that contains the target word:
\* setTimeout(() => endGame(finalScore), 1500)
AIwinningAnswer ==
  /\ game.ai.gameState = "playing"
  /\ game.ai.pending < MaxPending
  /\ game' = [game EXCEPT !.ai.pending = @ + 1]
  /\ trace' = Ev("aiWin", U, NoRoomId, TRUE, "")
  /\ UNCHANGED gameOthers

\* the delayed ending fires
AIdelayedEnd ==
  /\ game.ai.pending > 0
  /\ game' = [game EXCEPT !.ai = AIendGame([@ EXCEPT !.pending = @ - 1])]
  /\ trace' = Ev("aiDelayedEnd", U, NoRoomId, TRUE, "")
  /\ UNCHANGED gameOthers

\* AIChallenge.resetGame, from the button of the game over screen
AIresetGame ==
  /\ game.ai.gameState = "gameOver"
  /\ game' = [game EXCEPT !.ai = [@ EXCEPT !.gameState = "ready",
                                           !.timer = MaxTimer,
                                           !.interval = FALSE]]
  /\ trace' = Ev("aiReset", U, NoRoomId, TRUE, "")
  /\ UNCHANGED gameOthers

\* FlappyBird.endGame: returns at once when the game is over already
FBendGame(fb) ==
  IF fb.gameOver THEN fb
  ELSE [fb EXCEPT !.gameOver = TRUE, !.calls = @ + 1]

\* FlappyBird.startGame, from handleFlap on the start screen
FBstartGame ==
  /\ ~game.fb.gameStarted /\ ~game.fb.gameOver
  /\ game' = [game EXCEPT !.fb = [gameStarted |-> TRUE, gameOver |-> FALSE,
                                  calls |-> 0]]
  /\ trace' = Ev("fbStart", U, NoRoomId, TRUE, "")
  /\ UNCHANGED gameOthers

\* updateGame: one animation frame in which hits collision tests succeed
\* (pipes, ground, ceiling), each calling endGame
FBupdateGame(hits) ==
  /\ game.fb.gameStarted
  /\ hits \in 0..MaxCollisions
  /\ LET RECURSIVE After(_, _)
         After(fb, n) == IF n = 0 THEN fb ELSE After(FBendGame(fb), n - 1)
     IN game' = [game EXCEPT !.fb = After(@, hits)]
  /\ trace' = Ev("fbFrame", U, NoRoomId, hits > 0, "")
  /\ UNCHANGED gameOthers

\* FlappyBird.resetGame, from handleFlap on the game over screen
FBresetGame ==
  /\ game.fb.gameOver
  /\ game' = [game EXCEPT !.fb = [@ EXCEPT !.gameStarted = FALSE,
                                           !.gameOver = FALSE]]
  /\ trace' = Ev("fbReset", U, NoRoomId, TRUE, "")
  /\ UNCHANGED gameOthers

\* ------------------------------------------------------------------------
\* app/games/page.tsx: loadActiveRooms
\* ------------------------------------------------------------------------
\* ages in seconds of the rooms of the lobby: under a minute, minutes,
\* hours and days
AgeChoices == {30, 120, 300, 7200, 10800, 172800}

\* the rooms the ledger returns for the ids 1..MaxListed: status and age
LobbyLedgers ==
  [1..MaxListed -> [status : {Filling, Active}, age : AgeChoices]]

\* formatTimeAgo(timestamp) for diff = now - timestamp: the text, as the
\* number it starts with (0: none) and the words after it
formatTimeAgo(diff) ==
  IF diff < 60 THEN [n |-> 0, words |-> "just now"]
  ELSE IF diff < 3600 THEN [n |-> diff \div 60, words |-> "min ago"]
  ELSE IF diff < 86400 THEN [n |-> diff \div 3600, words |-> "hours ago"]
  ELSE [n |-> diff \div 86400, words |-> "days ago"]

\* parseInt of such a text; NaN when it does not start with a number
NaN == -1
parseIntTime(time) == IF time.words = "just now" THEN NaN ELSE time.n

\* the comparator handed to sort
compareRooms(a, b) ==
  LET aTime == parseIntTime(a.time)
      bTime == parseIntTime(b.time)
  IN IF aTime = NaN \/ bTime = NaN THEN 0 ELSE bTime - aTime

\* the rows of the rooms that are Filling, in the order of the ids
RECURSIVE fillingRooms(_, _)
fillingRooms(ledger, id) ==
  IF id > Len(ledger) THEN <<>>
  ELSE (IF ledger[id].status = Filling
        THEN <<[id |-> id, time |-> formatTimeAgo(ledger[id].age)]>>
        ELSE <<>>) \o fillingRooms(ledger, id + 1)

\* new Map(rows.map(room => [room.id, room])).values(): one row per id, at
\* the place of the first row of that id, with the content of the last
uniqueRooms(rows) ==
  LET firsts == {i \in DOMAIN rows : \A j \in 1..(i - 1) : rows[j].id # rows[i].id}
      lastOf(i) == CHOOSE j \in DOMAIN rows :
                     /\ rows[j].id = rows[i].id
                     /\ \A k \in DOMAIN rows : rows[k].id = rows[i].id => k <= j
      RECURSIVE Take(_)
      Take(i) == IF i > Len(rows) THEN <<>>
                 ELSE (IF i \in firsts THEN <<rows[lastOf(i)]>> ELSE <<>>)
                        \o Take(i + 1)
  IN Take(1)

\* a stable sort with the comparator: each row is put behind the rows it
\* does not have to precede
RECURSIVE insertRoom(_, _)
insertRoom(sorted, row) ==
  IF sorted = <<>> THEN <<row>>
  ELSE IF compareRooms(row, sorted[Len(sorted)]) < 0
       THEN insertRoom(SubSeq(sorted, 1, Len(sorted) - 1), row)
              \o <<sorted[Len(sorted)]>>
       ELSE Append(sorted, row)

RECURSIVE stableSort(_, _)
stableSort(rows, done) ==
  IF rows = <<>> THEN done
  ELSE stableSort(Tail(rows), insertRoom(done, Head(rows)))

\* the comparator orders the rows consistently: no row is without a number,
\* or all the numbers are equal
consistentComparator(rows) ==
  \/ \A i \in DOMAIN rows : parseIntTime(rows[i].time) # NaN
  \/ \A i, j \in DOMAIN rows :
       (parseIntTime(rows[i].time) # NaN /\ parseIntTime(rows[j].time) # NaN)
         => parseIntTime(rows[i].time) = parseIntTime(rows[j].time)

\* the orders Array.prototype.sort can leave the rows in: the stable order
\* for a consistent comparator, an order of the implementation's choosing
\* otherwise
sortOutcomes(rows) ==
  IF consistentComparator(rows) THEN {stableSort(rows, <<>>)}
  ELSE {[i \in DOMAIN rows |-> rows[p[i]]] :
          p \in {q \in [DOMAIN rows -> DOMAIN rows] :
                   \A i, j \in DOMAIN rows : q[i] = q[j] => i = j}}

loadActiveRooms ==
  /\ ~lobby.loaded
  /\ \E sorted \in sortOutcomes(uniqueRooms(fillingRooms(lobby.ledger, 1))) :
       lobby' = [lobby EXCEPT !.activeRooms = sorted, !.loaded = TRUE]
  /\ trace' = Ev("loadActiveRooms", U, NoRoomId, TRUE, "")
  /\ UNCHANGED <<rooms, notification, joinOp, sessionVars, loadOp, overOp,
                 claimOp, watchers, playing, game>>

\* ------------------------------------------------------------------------
\* Specification
\* ------------------------------------------------------------------------
\* the session of U, against a ledger that other clients use as well
Next ==
  \/ \E a \in Creators, fee \in FeeChoices, cap \in CapChoices :
       NextRoomId \in FirstRoom /\ CreateRoom(a, fee, cap)
  \/ \E a \in Addresses, r \in FirstRoom : LedgerJoinCall(a, r)
  \/ \E a \in Others, r \in FirstRoom, score \in 0..MaxScore :
       LedgerSubmitCall(a, r, score)
  \/ \E a \in Addresses, r \in FirstRoom : CancelRoom(a, r)
  \/ \E r \in FirstRoom : ExpireRoom(r)
  \/ \E r \in FirstRoom \cup {NoRoomId} : Navigate(r)
  \/ SelectGame
  \/ resetGameSession
  \/ LoadRoom
  \/ LoadPlayers
  \/ handleGameStart
  \/ \E score \in 0..MaxScore : GameOver(score)
  \/ OverGateRoom
  \/ OverGatePlayers
  \/ OverWrite
  \/ OverPost
  \/ \E i \in 1..MaxWatchers : WatcherTick(i)
  \/ \E i \in 1..MaxWatchers : WatcherRead(i)
  \/ \E i \in 1..MaxWatchers : WatcherTimeout(i)

Spec == Init /\ [][Next]_vars

\* the submission gate: the session of U without the polling intervals
NextGate ==
  \/ \E a \in Creators, fee \in FeeChoices, cap \in CapChoices :
       NextRoomId \in FirstRoom /\ CreateRoom(a, fee, cap)
  \/ \E a \in Addresses, r \in FirstRoom : LedgerJoinCall(a, r)
  \/ \E a \in Others, r \in FirstRoom, score \in 0..MaxScore :
       LedgerSubmitCall(a, r, score)
  \/ \E a \in Addresses, r \in FirstRoom : CancelRoom(a, r)
  \/ \E r \in FirstRoom : ExpireRoom(r)
  \/ \E r \in FirstRoom \cup {NoRoomId} : Navigate(r)
  \/ SelectGame
  \/ resetGameSession
  \/ LoadRoom
  \/ LoadPlayers
  \/ handleGameStart
  \/ \E score \in 0..MaxScore : GameOver(score)
  \/ OverGateRoom
  \/ OverGatePlayers
  \/ OverWrite
  \/ OverPost

SpecGate == Init /\ [][NextGate]_vars

\* the ledger alone, called by every address
NextLedger ==
  \/ \E a \in Addresses, fee \in LedgerFees, cap \in LedgerCaps :
       NextRoomId \in FirstRoom /\ LedgerCreateCall(a, fee, cap)
  \/ \E a \in Addresses, r \in FirstRoom : LedgerJoinCall(a, r)
  \/ \E a \in Addresses, r \in FirstRoom, score \in 0..MaxScore :
       LedgerSubmitCall(a, r, score)
  \/ \E a \in Addresses, r \in FirstRoom : LedgerClaimCall(a, r)
  \/ \E a \in Addresses, r \in FirstRoom : CancelRoom(a, r)
  \/ \E r \in FirstRoom : ExpireRoom(r)

SpecLedger == Init /\ [][NextLedger]_vars

\* settlement: U observes rooms and claims, every address plays
NextSettle ==
  \/ \E a \in Creators, fee \in SettleFees, cap \in CapChoices :
       NextRoomId \in FirstRoom /\ LedgerCreateCall(a, fee, cap)
  \/ \E a \in Addresses, r \in FirstRoom : LedgerJoinCall(a, r)
  \/ \E a \in Addresses, r \in FirstRoom, score \in 0..MaxScore :
       LedgerSubmitCall(a, r, score)
  \/ \E a \in Others, r \in FirstRoom : LedgerClaimCall(a, r)
  \/ \E r \in FirstRoom : ExpireRoom(r)
  \/ \E r \in FirstRoom : Navigate(r)
  \/ resetGameSession
  \/ LoadRoom
  \/ LoadPlayers
  \/ \E r \in FirstRoom : ClaimStart(r)
  \/ ClaimRead
  \/ ClaimWrite
  \/ ClaimReread

SpecSettle == Init /\ [][NextSettle]_vars

\* joining: every client runs handleJoinRoom
NextJoin ==
  \/ \E a \in Creators, fee \in FeeChoices, cap \in CapChoices :
       NextRoomId \in FirstRoom /\ LedgerCreateCall(a, fee, cap)
  \/ \E c \in Addresses, r \in FirstRoom : JoinCheck(c, r)
  \/ \E c \in Addresses : JoinPlayers(c)
  \/ \E c \in Addresses : JoinHook(c)
  \/ \E a \in Addresses, r \in FirstRoom : CancelRoom(a, r)
  \/ \E r \in FirstRoom : ExpireRoom(r)
  \/ LoadRoom
  \/ LoadPlayers

SpecJoin == Init /\ [][NextJoin]_vars

\* observation: two rooms on the ledger, U moves from one room to the other
NextObserve ==
  \/ \E a \in Creators, fee \in FeeChoices, cap \in CapChoices :
       NextRoomId \in RoomIds /\ LedgerCreateCall(a, fee, cap)
  \/ \E a \in Addresses, r \in RoomIds : LedgerJoinCall(a, r)
  \/ \E a \in Addresses, r \in RoomIds : CancelRoom(a, r)
  \/ \E r \in RoomIds : ExpireRoom(r)
  \/ \E r \in RoomIds \cup {NoRoomId} : Navigate(r)
  \/ resetGameSession
  \/ LoadRoom
  \/ LoadPlayers

SpecObserve == Init /\ [][NextObserve]_vars

\* the session from the creation of a room to the result, without reset or
\* navigation, under the scheduling of the browser: a handler that has
\* started runs on, the interval fires while it is set, a read that has
\* begun returns, and the reads of a watcher do not fail for ever
NextWatch ==
  \/ \E a \in Creators, fee \in FeeChoices, cap \in CapChoices :
       NextRoomId \in FirstRoom /\ CreateRoom(a, fee, cap)
  \/ \E a \in Addresses, r \in FirstRoom : LedgerJoinCall(a, r)
  \/ \E a \in Others, r \in FirstRoom, score \in 0..MaxScore :
       LedgerSubmitCall(a, r, score)
  \/ LoadRoom
  \/ LoadPlayers
  \/ handleGameStart
  \/ \E score \in 0..MaxScore : GameOver(score)
  \/ OverGateRoom
  \/ OverGatePlayers
  \/ OverWrite
  \/ OverPost
  \/ \E i \in 1..MaxWatchers : WatcherTick(i)
  \/ \E i \in 1..MaxWatchers : WatcherRead(i)
  \/ \E i \in 1..MaxWatchers : WatcherTimeout(i)

WatchFairness ==
  /\ WF_vars(LoadRoom) /\ WF_vars(LoadPlayers)
  /\ WF_vars(OverGateRoom) /\ WF_vars(OverGatePlayers)
  /\ WF_vars(OverWrite) /\ WF_vars(OverPost)
  /\ \A i \in 1..MaxWatchers :
       /\ WF_vars(WatcherTick(i))
       /\ WF_vars(WatcherRead(i))
       /\ SF_vars(WatcherRead(i) /\ trace'.ok)

SpecWatch == Init /\ [][NextWatch]_vars /\ WatchFairness

\* the two mini-games on their own
NextGames ==
  \/ AIstartGame
  \/ AItimerTick
  \/ AIwinningAnswer
  \/ AIdelayedEnd
  \/ AIresetGame
  \/ FBstartGame
  \/ \E hits \in 0..MaxCollisions : FBupdateGame(hits)
  \/ FBresetGame

SpecGames == Init /\ [][NextGames]_vars

\* the lobby: the ledger holds any rooms of the ages above, the page lists
\* them
InitLobby ==
  /\ InitPage
  /\ lobby \in {[NoLobby EXCEPT !.ledger = l] : l \in LobbyLedgers}

NextLobby ==
  \/ loadActiveRooms

SpecLobby == InitLobby /\ [][NextLobby]_vars

\* ------------------------------------------------------------------------
\* Properties
\* ------------------------------------------------------------------------
\* C1: the score submission gate never issues the ledger call submitScore
\* when, at the time handleGameOver was called, the room was not Active, the
\* caller was not on the roster or the caller had already submitted.
C1_GateIssuesNoRefusableCall ==
  [][(OverWrite /\ trace'.ev = "submitCall") => overOp.okAtStart]_vars

\* C2: once hasPlayedInRoom is true for the room of the session, no room
\* observation, game over or watcher tick for that room makes it false; only
\* resetGameSession (which clears the room of the session) does.
C2_HasPlayedMonotonic ==
  [][(/\ hasPlayedInRoom
      /\ gameSessionData.roomId # NoRoomId
      /\ gameSessionData'.roomId = gameSessionData.roomId)
     => hasPlayedInRoom']_vars

\* C3: at most one polling interval is active per room, and the intervals of
\* a room derive the result of its completion exactly once, never twice.
WatcherDerivations(r) ==
  LET of == {i \in DOMAIN watchers : watchers[i].room = r}
      RECURSIVE Sum(_)
      Sum(S) == IF S = {} THEN 0
                ELSE LET i == CHOOSE x \in S : TRUE
                     IN watchers[i].derived + Sum(S \ {i})
  IN Sum(of)

C3_OneWatcherOneNotification ==
  \A r \in RoomIds :
    /\ Cardinality({i \in DOMAIN watchers :
                      watchers[i].room = r /\ watchers[i].active}) <= 1
    /\ WatcherDerivations(r) <= 1

\* C4: for a Completed room, the winner's prize of the pre-game estimate
\* (RoomDetails, from entryFee * maxPlayers), of the post-win confirmation
\* (checkGameResult, from prizePool) and of the claim flow (handleClaimPrize,
\* from prizePool) are equal, in every state of the session that shows them.
WonRoomShown ==
  /\ gameSessionData.roomId # NoRoomId
  /\ gameSessionData.status = Completed
  /\ gameResult.set /\ gameResult.success

C4_NetPrizeSameAtAllSites ==
  LET estimate == RoomDetailsPrize(gameSessionData.entryFee,
                                   gameSessionData.maxPlayers).winnerPrize
  IN /\ WonRoomShown => ParseInt(gameResult.winnings) = estimate
     /\ (WonRoomShown /\ claimOp.pc \in {"write", "reread"}
           /\ claimOp.room = gameSessionData.roomId)
          => claimOp.expected = estimate
     /\ \A r \in RoomIds :
          LET room == getRoomDetails(r, TRUE)
          IN (~room.null /\ room.status = Completed)
               => /\ checkGameResultPrize(room.prizePool)
                       = handleClaimPrizeExpected(room.prizePool)
                  /\ checkGameResultPrize(room.prizePool)
                       = RoomDetailsPrize(room.entryFee, room.maxPlayers).winnerPrize

\* the claim flow computed the prize of a won room whose gross pool is not a
\* multiple of 10 (the floor of the commission matters)
C4_Witness ==
  /\ WonRoomShown
  /\ claimOp.pc = "write"
  /\ claimOp.room = gameSessionData.roomId
  /\ ParseInt(gameSessionData.entryFee) * gameSessionData.maxPlayers = 14
  /\ claimOp.expected = 13

\* C5: wherever the breakdown is shown (the room details and the prize
\* breakdown of the result panel), commission + winner's prize is the gross
\* pool entryFee * maxPlayers and the commission is floor(gross / 10).
C5_BreakdownSumsToGross ==
  (gameSessionData.roomId # NoRoomId /\ gameSessionData.maxPlayers >= 2) =>
    LET gross == ParseInt(gameSessionData.entryFee) * gameSessionData.maxPlayers
        details == RoomDetailsPrize(gameSessionData.entryFee,
                                    gameSessionData.maxPlayers)
        panel == PrizeBreakdown(gameSessionData)
    IN /\ details.commissionAmount = gross \div 10
       /\ details.commissionAmount + details.winnerPrize = gross
       /\ (gameResult.set /\ gameResult.success /\ Len(gameResult.winnings) > 0)
            => /\ panel.commission = gross \div 10
               /\ panel.commission + panel.winnerPrize = gross

\* C6: prizeClaimed never returns to false (so the prize is disbursed at most
\* once), and a claim attempted while prizeClaimed is true, by a non-winner or
\* on a room that is not Completed changes no room and is reported as failed.
ClaimMustFail(room, a) ==
  room.prizeClaimed \/ room.winner # a \/ room.status # Completed

C6_PrizeDisbursedAtMostOnce ==
  [][/\ \A r \in RoomIds : rooms[r].prizeClaimed => rooms'[r].prizeClaimed
     /\ \A a \in Addresses, r \in RoomIds :
          (LedgerClaimCall(a, r) /\ ClaimMustFail(rooms[r], a))
            => (rooms' = rooms /\ ~trace'.ok)
     /\ (ClaimWrite /\ ClaimMustFail(rooms[claimOp.room], U))
          => (rooms' = rooms /\ notification'[U] = "claimFailed"
                /\ claimOp'.pc = "idle")]_vars

\* the winner clicked Claim again on a room whose prize is claimed already
C6_Witness ==
  /\ trace.ev = "claimCall" /\ trace.who = U /\ ~trace.ok
  /\ rooms[trace.room].prizeClaimed
  /\ rooms[trace.room].winner = U

\* C7: currentPlayers never exceeds maxPlayers, and a join the ledger refused
\* is shown to the client that made it as an error.
C7_JoinsCappedAndRefusalsReported ==
  /\ \A r \in RoomIds :
       /\ rooms[r].currentPlayers <= rooms[r].maxPlayers
       /\ rooms[r].currentPlayers = Cardinality(rooms[r].players)
  /\ (trace.ev = "joinCall" /\ ~trace.ok)
       => /\ notification[trace.who] = "joinError"
          /\ trace.who \notin rooms[trace.room].players
               \/ trace.why = "You have already joined this room."

\* two clients read the room with a free seat, one joined, and the ledger
\* refused the other: the room is full
C7_Witness ==
  /\ trace.ev = "joinCall" /\ ~trace.ok
  /\ trace.why = "This room is already full."
  /\ rooms[trace.room].currentPlayers = rooms[trace.room].maxPlayers
  /\ trace.who \notin rooms[trace.room].players

\* C8: a status changes only along Filling -> Active -> Completed,
\* Filling -> Canceled and Filling or Active -> Expired; Completed, Canceled
\* and Expired are never left.
StatusMoves ==
  {<<Filling, Active>>, <<Active, Completed>>, <<Filling, Canceled>>,
   <<Filling, Expired>>, <<Active, Expired>>}

C8_StatusOnlyForward ==
  [][\A r \in RoomIds :
       (rooms[r].exists /\ rooms'[r].status # rooms[r].status)
         => <<rooms[r].status, rooms'[r].status>> \in StatusMoves]_vars

\* a claim was made on a room that is Completed, Canceled or Expired
C8_Witness ==
  /\ trace.ev = "claimCall"
  /\ rooms[trace.room].status \in {Completed, Canceled, Expired}
  /\ rooms[trace.room].currentPlayers = rooms[trace.room].maxPlayers

\* C9: in every state a room has a winner exactly when it is Completed, and
\* a winner, once set, never changes.
C9_WinnerSetOnceAtCompletion ==
  /\ [](\A r \in RoomIds :
          (rooms[r].winner # NoAddr) <=> (rooms[r].status = Completed))
  /\ [][\A r \in RoomIds :
          rooms[r].winner # NoAddr => rooms'[r].winner = rooms[r].winner]_vars

\* a room of three players is Completed, its winner holds the top score
C9_Witness ==
  \E r \in RoomIds :
    /\ rooms[r].status = Completed
    /\ rooms[r].maxPlayers = 3
    /\ rooms[r].winner \in TopScorers(rooms[r])
    /\ \E a \in rooms[r].players : rooms[r].scores[a] < rooms[r].scores[rooms[r].winner]

\* C10: a rejected submission marks the session as played exactly when the
\* rejection is AlreadySubmittedError; no other rejection (the status seen in
\* the session, StatusError, NotPlayerError, room not found, a refusal of the
\* ledger, a thrown error) sets hasPlayedInRoom to true.
RejectionStep ==
  /\ (\E score \in 0..MaxScore : GameOver(score))
       \/ OverGateRoom \/ OverGatePlayers \/ OverWrite
  /\ trace'.ev \in {"overRejected", "submitCall"}
  /\ ~trace'.ok

C10_OnlyAlreadySubmittedMarksPlayed ==
  [][RejectionStep =>
       IF trace'.why = "alreadySubmittedError"
       THEN hasPlayedInRoom'
       ELSE hasPlayedInRoom' => hasPlayedInRoom]_vars

\* a submission was rejected with AlreadySubmittedError
C10_Witness ==
  /\ trace.ev = "overRejected"
  /\ trace.why = "alreadySubmittedError"
  /\ hasPlayedInRoom

\* a step that ends the submission in flight (rejected, refused or accepted)
AttemptEnds ==
  /\ overOp.pc \in {"gateRoom", "gatePlayers", "write"}
  /\ overOp'.pc \in {"idle", "post"}

\* C11: a submission attempt by U for an Active room to which U has already
\* submitted ends with AlreadySubmittedError and hasPlayedInRoom true (the
\* attempts whose reads failed or whose call threw are left aside).
C11_SecondSubmitIsAlreadySubmitted ==
  [][(/\ AttemptEnds
      /\ rooms[overOp.room].status = Active
      /\ U \in rooms[overOp.room].submitted
      /\ trace'.why \notin {"roomNotFound", "notPlayerError", "thrown"})
     => (trace'.why = "alreadySubmittedError" /\ hasPlayedInRoom')]_vars

\* C12: for every room and every status, a roster read that succeeds returns
\* one record per joined player (as many as currentPlayers), and a record's
\* hasSubmittedScore is true exactly when that player has submitted on the
\* ledger.
C12_RosterReportsSubmissions ==
  \A r \in RoomIds :
    rooms[r].exists =>
      LET records == getPlayersInRoom(r, TRUE)
      IN /\ Cardinality(records) = rooms[r].currentPlayers
         /\ {p.playerAddress : p \in records} = rooms[r].players
         /\ \A p \in records :
              p.hasSubmittedScore <=> (p.playerAddress \in rooms[r].submitted)

\* the derivation table of the specification (section 4.7), rows Active,
\* Completed, Expired and Canceled
TableHasPlayed(status, isMember, hasSubmitted) ==
  CASE status = Active -> (IF ~isMember THEN TRUE ELSE hasSubmitted)
    [] status \in {Completed, Expired, Canceled} -> TRUE

\* C13: when loadRoomDetails has observed a room that is Active, Completed,
\* Expired or Canceled, hasPlayedInRoom is the table's value for the status,
\* the membership and the submission it observed, whatever it was before.
C13_ObservationFollowsTable ==
  [][(LoadPlayers /\ loadOp.snap.status \in {Active, Completed, Expired, Canceled})
     => LET playersData == getPlayersInRoom(loadOp.room, trace'.ok)
            isMember == loadOp.snap.creator = U \/ IsPlayerIn(playersData, U)
            hasSubmitted == HasSubmittedIn(playersData, U)
        IN hasPlayedInRoom' =
             TableHasPlayed(loadOp.snap.status, isMember, hasSubmitted)]_vars

\* U, a member, observed the room as Active and the roster as reporting a
\* submission of U: the third row of the table
C13_Witness ==
  /\ trace.ev = "loadPlayers" /\ trace.ok
  /\ gameSessionData.status = Active
  /\ gameSessionData.roomId = trace.room
  /\ U \in rooms[trace.room].players
  /\ hasPlayedInRoom

\* C14: when loadRoomDetails has observed a room as Filling, hasPlayedInRoom
\* is false, for a member, for the creator and for a user who is neither,
\* also when it was true before the observation.
C14_FillingObservationClearsFlag ==
  [][(LoadPlayers /\ loadOp.snap.status = Filling) => ~hasPlayedInRoom']_vars

\* the result panels of the game view render the prize and a Claim Prize
\* button whenever the result is a success with winnings
claimActionShown ==
  /\ activeGame # "none"
  /\ gameResult.set /\ gameResult.success
  /\ Len(gameResult.winnings) > 0

\* C15: for a room observed as Completed the display is decided by the user,
\* the winner and prizeClaimed alone: the prize with its Claim action for the
\* winner of an unclaimed prize, "already claimed" without a claimable prize
\* for the winner of a claimed one, and a lost game for everybody else.
C15_CompletedDisplayByWinnerAndClaimed ==
  [][(LoadPlayers /\ loadOp.snap.status = Completed)
     => LET isWinner == loadOp.snap.winner = U
            claimed == loadOp.snap.prizeClaimed
        IN /\ (isWinner /\ ~claimed)
                => (notification'[U] = "claimable" /\ claimActionShown')
           /\ (isWinner /\ claimed)
                => (notification'[U] = "alreadyClaimed" /\ ~claimActionShown')
           /\ ~isWinner
                => /\ notification'[U] \in {"winnerIs", "completed"}
                   /\ gameResult'.set /\ ~gameResult'.success
                   /\ ~claimActionShown']_vars

\* C16: a claimPrize call for a room whose prize is already claimed is
\* refused, and after it the client shows "already claimed" and no Claim
\* action for a claimable prize.
C16_SecondClaimShowsAlreadyClaimed ==
  [][(/\ ClaimWrite
      /\ trace'.ev = "claimCall"
      /\ rooms[claimOp.room].prizeClaimed)
     => (/\ ~trace'.ok
         /\ rooms' = rooms
         /\ notification'[U] = "alreadyClaimed"
         /\ ~claimActionShown')]_vars

\* C17: a completion watcher is cancelled when the session is reset, left or
\* moved to another room: a watcher ticks, reads the ledger and sets the
\* result or the notification only while the session still is on its room.
C17_WatcherStopsWithSession ==
  [][\A i \in DOMAIN watchers :
       (WatcherTick(i) \/ WatcherRead(i))
         => gameSessionData.roomId = watchers[i].room]_vars

\* C18: an empty roster from a failed read is never taken as "U is not a
\* player" of a room that has players: for a member U the observation of an
\* Active room does not block play as a non-member, and the gate does not
\* reject the submission as coming from a non-member.
C18_EmptyRosterIsNotNonMembership ==
  [][/\ (/\ LoadPlayers
         /\ loadOp.snap.status = Active
         /\ loadOp.snap.currentPlayers > 0
         /\ U \in rooms[loadOp.room].players)
          => notification'[U] # "notAPlayer"
     /\ (/\ OverGatePlayers
         /\ U \in rooms[overOp.room].players)
          => trace'.why # "notPlayerError"]_vars

\* C19: a room read that fails while the ledger holds the room is never
\* reported as absence of the room: neither the room load nor the submission
\* answers "room not found" for a room that exists.
C19_ReadFailureIsNotAbsence ==
  [][/\ (LoadRoom /\ rooms[loadOp.room].exists)
          => notification'[U] # "roomNotFound"
     /\ (OverGateRoom /\ rooms[overOp.room].exists)
          => trace'.why # "roomNotFound"]_vars

\* C20: a submission is accepted or rejected on the ledger's state at the time
\* of the attempt: when the ledger would accept a score of U for the room of
\* the session, the submission is not rejected on the status the session
\* remembers.
C20_SubmissionDecidedOnFreshState ==
  [][(/\ \E score \in 0..MaxScore : GameOver(score)
      /\ gameSessionData.roomId # NoRoomId
      /\ LedgerSubmitOk(rooms[gameSessionData.roomId], U))
     => trace'.ev # "overRejected"]_vars

\* C21: a join attempt by an address that is on the roster of the room is a
\* success without effect: no check of handleJoinRoom refuses it as a full
\* or completed room, no join error is shown, and the roster and
\* currentPlayers stay as they are.
C21_RejoinIsNoOpSuccess ==
  [][\A c \in Addresses :
       /\ \A r \in FirstRoom :
            (JoinCheck(c, r) /\ c \in rooms[r].players)
              => trace'.why \notin {"roomFull", "roomCompleted"}
       /\ (JoinHook(c) /\ c \in rooms[joinOp[c].room].players)
            => (rooms' = rooms /\ notification'[c] # "joinError")]_vars

\* C22: a room is Completed only when every roster member has submitted; it
\* goes from Active to Completed with the accepted submission of the last
\* member still outstanding, and the winner recorded then is a roster member
\* whose score no submitted score exceeds.
C22_CompletedWhenAllSubmitted ==
  /\ [](\A r \in RoomIds :
          rooms[r].status = Completed
            => /\ rooms[r].submitted = rooms[r].players
               /\ rooms[r].winner \in rooms[r].players
               /\ \A b \in rooms[r].submitted :
                    rooms[r].scores[b] <= rooms[r].scores[rooms[r].winner])
  /\ [][\A r \in RoomIds :
          /\ (rooms[r].status = Active /\ rooms'[r].status = Completed)
               => \E a \in rooms[r].players \ rooms[r].submitted :
                    /\ rooms[r].submitted \cup {a} = rooms[r].players
                    /\ rooms'[r].submitted = rooms[r].players
          /\ (/\ rooms[r].status = Active
              /\ rooms'[r].submitted # rooms[r].submitted
              /\ rooms'[r].submitted = rooms[r].players)
               => rooms'[r].status = Completed]_vars

\* a room of three players completed by its last submission: two members
\* scored 0 and the winner scored more
C22_Witness ==
  \E r \in RoomIds :
    /\ rooms[r].status = Completed
    /\ Cardinality(rooms[r].players) = 3
    /\ rooms[r].submitted = rooms[r].players
    /\ rooms[r].scores[rooms[r].winner] > 0
    /\ Cardinality({b \in rooms[r].players : rooms[r].scores[b] = 0}) = 2

\* the ways a message can name a status: its name or the code the ledger
\* uses for it
StatusNamings(status) ==
  CASE status = Filling -> {"Filling"}
    [] status = Completed -> {"Completed", "2"}
    [] status = Expired -> {"Expired", "3"}
    [] status = Canceled -> {"Canceled", "4"}
    [] OTHER -> {}

\* the status error messages that name the status
StatusErrorMessages(status) ==
  {"Cannot submit score - Room must be in Active status to submit scores. Current status: " \o n :
     n \in StatusNamings(status)}
  \cup {"Cannot submit score - Room is not in Active status. Current status: " \o n :
          n \in StatusNamings(status) \ {"Filling"}}
  \cup (IF status = Filling
        THEN {"Cannot submit score - Room must be in Active status (currently in Filling status)."}
        ELSE {})

C24_StoppedWatcherStaysSilent ==
  [][\A i \in DOMAIN watchers :
       /\ ~watchers[i].active
            => /\ watchers'[i].ticks = watchers[i].ticks
               /\ watchers'[i].derived = watchers[i].derived
               /\ ~watchers'[i].active
       /\ WatcherTimeout(i) => notification' = notification]_vars

\* C25: when the interval of a watcher is set and its room is Completed on
\* the ledger, the client eventually shows the result of that room without
\* any action of the user.
C25_CompletedRoomEventuallyShown ==
  \A i \in 1..MaxWatchers :
    (/\ i \in DOMAIN watchers
     /\ watchers[i].active
     /\ rooms[watchers[i].room].status = Completed)
      ~> gameResult.set

\* C26: between one start of a mini-game and the next, the game calls
\* onGameOver at most once, also when the clock of the AI challenge runs out
\* during the delay after a winning answer and when several collision tests
\* hit in the arcade game.
C26_OneGameOverPerPlay ==
  /\ game.ai.calls <= 1
  /\ game.fb.calls <= 1

\* C27: the list made by loadActiveRooms is in descending order of creation:
\* of any two rooms of the list, the one created later (the younger one)
\* stands before the other.
C27_ListNewestFirst ==
  lobby.loaded =>
    \A i, j \in DOMAIN lobby.activeRooms :
      lobby.ledger[lobby.activeRooms[i].id].age
          < lobby.ledger[lobby.activeRooms[j].id].age
        => i < j

\* C28: once the score of U for a room is accepted and the session marks the
\* room as played, no later game of the session reaches the ledger call
\* submitScore for that room.
C28_PlayedSessionSubmitsNoMore ==
  [][(OverWrite /\ trace'.ev = "submitCall")
     => ~(/\ hasPlayedInRoom
          /\ gameSessionData.roomId = overOp.room
          /\ U \in rooms[overOp.room].submitted)]_vars

\* C29: the room of the session is one room: whenever no load is in flight
\* and both activeRoomId and gameSessionData.roomId are set, they are the
\* same room.
C29_SessionRoomIsActiveRoom ==
  (/\ loadOp.pc = "idle"
   /\ activeRoomId # NoRoomId
   /\ gameSessionData.roomId # NoRoomId)
    => gameSessionData.roomId = activeRoomId

\* C30: one Completion Watcher derives the result at most once: however many
\* of its ticks are in flight and whether or not the timeout has cleared it,
\* a watcher's reads invoke checkGameResult at most once.
C30_WatcherDerivesAtMostOnce ==
  \A i \in DOMAIN watchers : watchers[i].derived <= 1

====
